---- MODULE Spec2Model ----
(***************************************************************************)
(* A model of update_news.py (TechPulse news updater): the credential      *)
(* resolver, the article fetcher, the category aggregator, the page        *)
(* renderer and the orchestrator.                                          *)
(*                                                                         *)
(* Text is a sequence of one-character strings.  A JSON value is a record  *)
(* [t, s, d]: Str(s) a string, Null the JSON null, Obj(d) an object. A JSON *)
(* object (a Python dict) is a function from its keys; a missing key is a  *)
(* key outside its DOMAIN.                                                 *)
(***************************************************************************)
EXTENDS Integers, Sequences, FiniteSets, TLC

VARIABLES
    key_file,         \* contents of .newsapi_key, or Missing
    env_key,          \* value of NEWSAPI_KEY, or Missing
    now,              \* the clock read by datetime.now(), in half hours
    pc,               \* position of the running function
    api_key,          \* main: api_key
    ci,               \* main: index of the category being fetched
    queries,          \* fetch_category_news: category_queries
    qi,               \* fetch_category_news: index of the query being fetched
    all_articles,     \* fetch_category_news: all_articles
    seen_urls,        \* fetch_category_news: seen_urls
    merged,           \* all_articles as it was when the loops ended (before the sort)
    result,           \* value returned by the function under study
    empty_url_seen,   \* some article with a falsy url was returned by a fetch of this call
    net_calls,        \* number of urlopen calls made
    news_by_category, \* main: news_by_category, in insertion order
    html,             \* main: html, <<>> until rendered
    output_file,      \* <<>> until index.html is written, then <<its contents>>
    exit_status,      \* {} while running, then {status}
    input             \* argument of the pure function under study

vars == <<key_file, env_key, now, pc, api_key, ci, queries, qi, all_articles,
          seen_urls, merged, result, empty_url_seen, net_calls,
          news_by_category, html, output_file, exit_status, input>>

(***************************************************************************)
(* Bounds of the model.                                                    *)
(***************************************************************************)
\* distinct non-empty URLs the API may return to one fetch_category_news call
MaxUrl == 7
\* longest query list handed to a stand-alone fetch_category_news call
MaxQueries == 3
\* distinct non-empty URLs the API may return during one run of main
MainMaxUrl == 2
\* longest title drawn for generate_story_html
MaxTitleLen == 6
\* how far around the truncation limits the description lengths are drawn
DescSlack == 2
\* digits of a timestamp text
IsoWidth == 3
\* longest article list drawn for one category of generate_html
MaxCards == 2

(***************************************************************************)
(* Program constants.                                                      *)
(***************************************************************************)
TopN == 6
DescriptionLimit == 150
DescriptionKeep == 147
SecondsPerHour == 3600
WeekDays == 7
SecondsPerDay == 24 * 3600
\* resolution of the model's clock: one tick is half an hour
TickSeconds == 30 * 60

(***************************************************************************)
(* JSON values and dicts.                                                  *)
(***************************************************************************)
EmptyDict == [k \in {} |-> 0]
Str(s) == [t |-> "str", s |-> s, d |-> EmptyDict]
Null == [t |-> "null", s |-> <<>>, d |-> EmptyDict]
Obj(d) == [t |-> "obj", s |-> <<>>, d |-> d]
\* marks a key to leave out when a dict is built
Missing == [t |-> "missing", s |-> <<>>, d |-> EmptyDict]
Entry(k, v) == IF v = Missing THEN EmptyDict ELSE (k :> v)

\* dict.get(key, default)
Get(d, k, default) == IF k \in DOMAIN d THEN d[k] ELSE default

\* Python truthiness of a str or None
Truthy(v) == v.t = "str" /\ v.s # <<>>

\* code points of the characters the model draws
Ord(c) ==
    CASE c = " " -> 32
      [] c = "\"" -> 34
      [] c = "#" -> 35
      [] c = "&" -> 38
      [] c = "'" -> 39
      [] c = "-" -> 45
      [] c = "." -> 46
      [] c = "0" -> 48
      [] c = "1" -> 49
      [] c = "2" -> 50
      [] c = "3" -> 51
      [] c = "4" -> 52
      [] c = "5" -> 53
      [] c = "6" -> 54
      [] c = "7" -> 55
      [] c = "8" -> 56
      [] c = "9" -> 57
      [] c = ";" -> 59
      [] c = "<" -> 60
      [] c = ">" -> 62
      [] c = "A" -> 65
      [] c = "a" -> 97
      [] c = "b" -> 98
      [] c = "k" -> 107
      [] c = "u" -> 117
      [] OTHER -> 120

\* str < str: lexicographic by code point
RECURSIVE StrLess(_, _)
StrLess(a, b) ==
    IF b = <<>> THEN FALSE
    ELSE IF a = <<>> THEN TRUE
    ELSE IF Ord(Head(a)) # Ord(Head(b)) THEN Ord(Head(a)) < Ord(Head(b))
    ELSE StrLess(Tail(a), Tail(b))

Digit == <<"1", "2", "3", "4", "5", "6", "7", "8", "9">>
\* the i-th URL the API can return
Url(i) == Str(<<"u", Digit[i]>>)

(***************************************************************************)
(* Configuration (CATEGORIES).                                             *)
(***************************************************************************)
CATEGORIES ==
    << [name |-> "Artificial Intelligence",
        queries |-> << "artificial intelligence",
                       "OpenAI OR Anthropic OR DeepMind",
                       "large language model OR LLM" >>],
       [name |-> "Developer Tools",
        queries |-> << "developer tools OR IDE",
                       "GitHub OR VS Code OR programming",
                       "software development" >>],
       [name |-> "Tech Industry",
        queries |-> << "tech industry",
                       "Apple OR Google OR Microsoft OR Meta",
                       "startup funding OR tech stocks" >>] >>

AllQueries == CATEGORIES[1].queries \o CATEGORIES[2].queries \o CATEGORIES[3].queries

(***************************************************************************)
(* fetch_news.  What urlopen and json.loads can produce for one request.   *)
(***************************************************************************)
Responses ==
    { "network_error", "timeout", "http_error", "malformed_json",
      "not_an_object", "no_articles_key", "articles_null", "articles_list" }

\* the kind of value fetch_news returns: the except branch and the default of
\* data.get("articles", []) give the empty list; a JSON null is returned as None
fetch_news(response) ==
    IF response \in { "network_error", "timeout", "http_error",
                      "malformed_json", "not_an_object" }
    THEN "empty"
    ELSE IF response = "no_articles_key" THEN "empty"
    ELSE IF response = "articles_null" THEN "none"
    ELSE "list"

(***************************************************************************)
(* fetch_category_news.                                                    *)
(***************************************************************************)
\* the sort key: x.get("publishedAt", "")
PublishedAtKey(x) == Get(x, "publishedAt", Str(<<>>))

\* list.sort raises TypeError when it has to compare a None key
SortRaises(list) ==
    Len(list) >= 2 /\ \E i \in 1..Len(list) : PublishedAtKey(list[i]).t # "str"

\* InsertDescending with the ties the wrong way round: x goes in front of the
\* elements whose key equals its own
RECURSIVE InsertDescendingUnstable(_, _)
InsertDescendingUnstable(sorted, x) ==
    IF sorted = <<>> THEN <<x>>
    ELSE IF ~StrLess(PublishedAtKey(x).s, PublishedAtKey(Head(sorted)).s)
         THEN <<x>> \o sorted
         ELSE <<Head(sorted)>> \o InsertDescendingUnstable(Tail(sorted), x)

\* x goes behind every element whose key is not smaller than its own
RECURSIVE InsertDescending(_, _)
InsertDescending(sorted, x) ==
    IF sorted = <<>> THEN <<x>>
    ELSE IF StrLess(PublishedAtKey(Head(sorted)).s, PublishedAtKey(x).s)
         THEN <<x>> \o sorted
         ELSE <<Head(sorted)>> \o InsertDescending(Tail(sorted), x)

\* all_articles.sort(key=..., reverse=True): stable, descending
RECURSIVE SortDescending(_)
SortDescending(list) ==
    IF list = <<>> THEN <<>>
    ELSE InsertDescending(SortDescending(SubSeq(list, 1, Len(list) - 1)),
                          list[Len(list)])

\* Take cutting one element too late
TakeOneMore(list, n) == SubSeq(list, 1, IF Len(list) < n + 1 THEN Len(list) ELSE n + 1)

\* list[:n]
Take(list, n) == SubSeq(list, 1, IF Len(list) < n THEN Len(list) ELSE n)

\* the articles one fetch may hold next: a falsy url, a url seen before in this
\* call, or the next fresh one (URLs are only tested for truth and equality)
Incoming(maxUrl, stamps) ==
    LET n == Cardinality(seen_urls)
        urls == { Missing, Null, Str(<<>>) }
                    \cup { Url(i) : i \in 1..(IF n < maxUrl THEN n + 1 ELSE maxUrl) }
    IN  { Entry("url", u) @@ Entry("publishedAt", p) : u \in urls, p \in stamps }

\* line 76: one iteration of "for query in category_queries" up to the fetch
FetchQuery ==
    /\ pc = "query"
    /\ qi <= Len(queries)
    /\ net_calls' = net_calls + 1
    /\ \E response \in Responses :
         LET articles == fetch_news(response)
         IN  \/ /\ articles = "empty"
                /\ qi' = qi + 1
                /\ pc' = "query"
             \/ /\ articles = "list"
                /\ qi' = qi
                /\ pc' = "articles"
             \/ /\ articles = "none"
                /\ qi' = qi
                /\ pc' = "raised"
    /\ UNCHANGED <<key_file, env_key, now, api_key, ci, queries, all_articles,
                   seen_urls, merged, result, empty_url_seen, news_by_category,
                   html, output_file, exit_status, input>>

\* AppendUnseen without the truth test on url
AppendUnseenFalsyToo(article) ==
    LET url == Get(article, "url", Str(<<>>))
    IN  IF url \notin seen_urls
        THEN /\ seen_urls' = seen_urls \cup {url}
             /\ all_articles' = Append(all_articles, article)
        ELSE UNCHANGED <<seen_urls, all_articles>>

\* lines 77-81: the body of "for article in articles" for the next article
AppendUnseen(article) ==
    LET url == Get(article, "url", Str(<<>>))
    IN  IF Truthy(url) /\ url \notin seen_urls
        THEN /\ seen_urls' = seen_urls \cup {url}
             /\ all_articles' = Append(all_articles, article)
        ELSE UNCHANGED <<seen_urls, all_articles>>

ProcessArticle(maxUrl, stamps) ==
    /\ pc = "articles"
    /\ \E article \in Incoming(maxUrl, stamps) :
         /\ AppendUnseen(article)
         /\ empty_url_seen' =
                (empty_url_seen \/ ~Truthy(Get(article, "url", Str(<<>>))))
    /\ UNCHANGED <<key_file, env_key, now, pc, api_key, ci, queries, qi, merged,
                   result, net_calls, news_by_category, html, output_file,
                   exit_status, input>>

\* the response is exhausted: on to the next query
EndOfArticles ==
    /\ pc = "articles"
    /\ qi' = qi + 1
    /\ pc' = "query"
    /\ UNCHANGED <<key_file, env_key, now, api_key, ci, queries, all_articles,
                   seen_urls, merged, result, empty_url_seen, net_calls,
                   news_by_category, html, output_file, exit_status, input>>

\* lines 83-85: sort by date and return the top 6
SortAndReturn ==
    /\ pc = "query"
    /\ qi > Len(queries)
    /\ merged' = all_articles
    /\ IF SortRaises(all_articles)
       THEN /\ pc' = "raised"
            /\ UNCHANGED <<all_articles, result>>
       ELSE /\ all_articles' = SortDescending(all_articles)
            /\ result' = Take(all_articles', TopN)
            /\ pc' = "returned"
    /\ UNCHANGED <<key_file, env_key, now, api_key, ci, queries, qi, seen_urls,
                   empty_url_seen, net_calls, news_by_category, html,
                   output_file, exit_status, input>>

(***************************************************************************)
(* SpecAgg: one call of fetch_category_news on any list of up to           *)
(* MaxQueries queries, every fetch returning any of Responses.             *)
(***************************************************************************)
AggStamps == { Missing, Str(<<"1">>), Str(<<"2">>) }

InitAgg ==
    /\ key_file = Missing
    /\ env_key = Missing
    /\ now = 0
    /\ pc = "query"
    /\ api_key = Str(<<"k">>)
    /\ ci = 0
    /\ queries \in { SubSeq(AllQueries, 1, n) : n \in 0..MaxQueries }
    /\ qi = 1
    /\ all_articles = <<>>
    /\ seen_urls = {}
    /\ merged = <<>>
    /\ result = <<>>
    /\ empty_url_seen = FALSE
    /\ net_calls = 0
    /\ news_by_category = <<>>
    /\ html = <<>>
    /\ output_file = <<>>
    /\ exit_status = {}
    /\ input = <<>>

NextAgg ==
    \/ FetchQuery
    \/ ProcessArticle(MaxUrl, AggStamps)
    \/ EndOfArticles
    \/ SortAndReturn

SpecAgg == InitAgg /\ [][NextAgg]_vars

(***************************************************************************)
(* html.escape (quote=True).                                               *)
(***************************************************************************)
EscapeChar(c) ==
    CASE c = "&" -> <<"&", "a", "m", "p", ";">>
      [] c = "<" -> <<"&", "l", "t", ";">>
      [] c = ">" -> <<"&", "g", "t", ";">>
      [] c = "\"" -> <<"&", "q", "u", "o", "t", ";">>
      [] c = "'" -> <<"&", "#", "x", "2", "7", ";">>
      [] OTHER -> <<c>>

\* every character replaced by its entity, left to right
RECURSIVE Escape(_)
Escape(s) ==
    IF s = <<>> THEN <<>>
    ELSE IF Len(s) = 1 THEN EscapeChar(s[1])
    ELSE LET half == Len(s) \div 2
         IN  Escape(SubSeq(s, 1, half)) \o Escape(SubSeq(s, half + 1, Len(s)))

(***************************************************************************)
(* format_date.  A timestamp text is IsoWidth decimal digits counting the  *)
(* half hours since the epoch; datetime.fromisoformat rejects any other    *)
(* text.  The clock counts half hours as well.                             *)
(***************************************************************************)
DigitValue(c) ==
    CASE c = "0" -> 0 [] c = "1" -> 1 [] c = "2" -> 2 [] c = "3" -> 3
      [] c = "4" -> 4 [] c = "5" -> 5 [] c = "6" -> 6 [] c = "7" -> 7
      [] c = "8" -> 8 [] c = "9" -> 9 [] OTHER -> -1

RECURSIVE Decimal(_)
Decimal(s) ==
    IF s = <<>> THEN 0 ELSE 10 * Decimal(SubSeq(s, 1, Len(s) - 1)) + DigitValue(s[Len(s)])

\* whether iso_date.replace(...) and datetime.fromisoformat(...) succeed
Parses(iso_date) ==
    /\ iso_date.t = "str"
    /\ Len(iso_date.s) = IsoWidth
    /\ \A i \in 1..Len(iso_date.s) : DigitValue(iso_date.s[i]) >= 0

FromIsoFormat(iso_date) == Decimal(iso_date.s)

Label(text, n) == [label |-> text, n |-> n]

format_date(iso_date, clock) ==
    IF ~Parses(iso_date) THEN Label("", 0)
    ELSE LET dt == FromIsoFormat(iso_date)
             diff == (clock - dt) * TickSeconds
             days == diff \div SecondsPerDay
             seconds == diff % SecondsPerDay
             hours == seconds \div SecondsPerHour
         IN  IF days = 0
             THEN IF hours = 0 THEN Label("Just now", 0) ELSE Label("h ago", hours)
             ELSE IF days = 1 THEN Label("Yesterday", 0)
             ELSE IF days < WeekDays THEN Label(" days ago", days)
             ELSE Label("%b %d", (dt * TickSeconds) \div SecondsPerDay)

(***************************************************************************)
(* generate_story_html.  A card is the record of the texts the template    *)
(* interpolates.                                                           *)
(***************************************************************************)
Untitled == <<"U", "n", "t", "i", "t", "l", "e", "d">>
Unknown == <<"U", "n", "k", "n", "o", "w", "n">>
Separator == <<" ", "-", " ">>
Ellipsis == <<".", ".", ".">>

\* x or default
OrElse(v, default) == IF Truthy(v) THEN v ELSE default

\* the places where sep occurs in s
Occurrences(s, sep) ==
    { i \in 1..(Len(s) - Len(sep) + 1) : SubSeq(s, i, i + Len(sep) - 1) = sep }

Max(S) == CHOOSE m \in S : \A x \in S : x <= m
Min(S) == CHOOSE m \in S : \A x \in S : m <= x

\* s.split(sep, 1)[0]: the split at the leftmost separator
SplitFirst(s, sep) == SubSeq(s, 1, Min(Occurrences(s, sep)) - 1)

\* s.rsplit(sep, 1)[0]
RSplitFirst(s, sep) == SubSeq(s, 1, Max(Occurrences(s, sep)) - 1)

\* lines 112-115
StoryTitle(article) ==
    LET title == Escape(OrElse(Get(article, "title", Str(Untitled)), Str(Untitled)).s)
    IN  IF Occurrences(title, Separator) # {}
        THEN RSplitFirst(title, Separator)
        ELSE title

\* lines 120-124, after the "or": escape, then truncate
EscapeThenTruncate(description) ==
    LET escaped == Escape(description)
    IN  IF Len(escaped) > DescriptionLimit
        THEN SubSeq(escaped, 1, DescriptionKeep) \o Ellipsis
        ELSE escaped

StoryExcerpt(article) ==
    EscapeThenTruncate(OrElse(Get(article, "description", Str(<<>>)), Str(<<>>)).s)

\* article.get("source", {}).get("name", "Unknown")
SourceName(article) == Get(Get(article, "source", Obj(EmptyDict)).d, "name", Str(Unknown))

\* escape(None), None.get and "text".get raise AttributeError
StoryRaises(article) ==
    \/ Get(article, "url", Str(<<"#">>)).t # "str"
    \/ Get(article, "source", Obj(EmptyDict)).t # "obj"
    \/ SourceName(article).t # "str"

generate_story_html(article, featured, clock) ==
    [ href    |-> Escape(Get(article, "url", Str(<<"#">>)).s),
      class   |-> IF featured THEN "story featured" ELSE "story",
      title   |-> StoryTitle(article),
      source  |-> Escape(SourceName(article).s),
      date    |-> format_date(Get(article, "publishedAt", Str(<<>>)), clock),
      excerpt |-> StoryExcerpt(article) ]

(***************************************************************************)
(* generate_html.  news is the dict in insertion order: a sequence of      *)
(* [category, articles].  The page is the record of what the template      *)
(* interpolates: today and the sections.                                   *)
(***************************************************************************)
Stories(articles, clock) ==
    [ i \in 1..Len(articles) |-> generate_story_html(articles[i], i = 1, clock) ]

Section(entry, clock) ==
    [ title |-> entry.category, stories |-> Stories(entry.articles, clock) ]

\* the loop without "if not articles: continue"
RECURSIVE SectionsKeepingEmpty(_, _)
SectionsKeepingEmpty(news, clock) ==
    IF news = <<>> THEN <<>>
    ELSE <<Section(Head(news), clock)>> \o SectionsKeepingEmpty(Tail(news), clock)

\* lines 142-159
RECURSIVE Sections(_, _)
Sections(news, clock) ==
    IF news = <<>> THEN <<>>
    ELSE IF Head(news).articles = <<>> THEN Sections(Tail(news), clock)
    ELSE <<Section(Head(news), clock)>> \o Sections(Tail(news), clock)

HtmlRaises(news) ==
    \E c \in 1..Len(news) : \E i \in 1..Len(news[c].articles) :
        StoryRaises(news[c].articles[i])

generate_html(news, clock) ==
    [ today |-> (clock * TickSeconds) \div SecondsPerDay,
      sections |-> Sections(news, clock) ]

(***************************************************************************)
(* get_api_key and main.                                                   *)
(***************************************************************************)
IsSpace(c) == c = " " \/ c = "\n"

RECURSIVE LStrip(_)
LStrip(s) == IF s # <<>> /\ IsSpace(Head(s)) THEN LStrip(Tail(s)) ELSE s

RECURSIVE RStrip(_)
RStrip(s) ==
    IF s # <<>> /\ IsSpace(s[Len(s)]) THEN RStrip(SubSeq(s, 1, Len(s) - 1)) ELSE s

\* str.strip()
Strip(s) == LStrip(RStrip(s))

\* the file, stripped, if it exists; else the environment variable; else ""
get_api_key(file, env) ==
    IF file # Missing THEN Strip(file.s)
    ELSE Get(Entry("NEWSAPI_KEY", env), "NEWSAPI_KEY", Str(<<>>)).s

\* ResolveKey without the early return on an empty key
ResolveKeyUnchecked ==
    /\ pc = "start"
    /\ api_key' = Str(get_api_key(key_file, env_key))
    /\ news_by_category' = <<>>
    /\ ci' = 1
    /\ pc' = "category"
    /\ UNCHANGED <<key_file, env_key, now, queries, qi, all_articles, seen_urls,
                   merged, result, empty_url_seen, net_calls, html, output_file,
                   exit_status, input>>

\* lines 343-354
ResolveKey ==
    /\ pc = "start"
    /\ api_key' = Str(get_api_key(key_file, env_key))
    /\ IF ~Truthy(api_key')
       THEN /\ exit_status' = {1}
            /\ pc' = "exited"
            /\ UNCHANGED <<ci, news_by_category>>
       ELSE /\ news_by_category' = <<>>
            /\ ci' = 1
            /\ pc' = "category"
            /\ UNCHANGED exit_status
    /\ UNCHANGED <<key_file, env_key, now, queries, qi, all_articles, seen_urls,
                   merged, result, empty_url_seen, net_calls, html, output_file,
                   input>>

\* lines 355-357 and 72-73: the next category, entering fetch_category_news
StartCategory ==
    /\ pc = "category"
    /\ ci <= Len(CATEGORIES)
    /\ queries' = CATEGORIES[ci].queries
    /\ qi' = 1
    /\ all_articles' = <<>>
    /\ seen_urls' = {}
    /\ merged' = <<>>
    /\ result' = <<>>
    /\ empty_url_seen' = FALSE
    /\ pc' = "query"
    /\ UNCHANGED <<key_file, env_key, now, api_key, ci, net_calls,
                   news_by_category, html, output_file, exit_status, input>>

\* line 357: news_by_category[category] = <the returned list>
StoreCategory ==
    /\ pc = "returned"
    /\ news_by_category' =
           Append(news_by_category, [category |-> CATEGORIES[ci].name, articles |-> result])
    /\ ci' = ci + 1
    /\ pc' = "category"
    /\ UNCHANGED <<key_file, env_key, now, api_key, queries, qi, all_articles,
                   seen_urls, merged, result, empty_url_seen, net_calls, html,
                   output_file, exit_status, input>>

\* line 362
Render ==
    /\ pc = "category"
    /\ ci > Len(CATEGORIES)
    /\ IF HtmlRaises(news_by_category)
       THEN /\ pc' = "raised"
            /\ UNCHANGED html
       ELSE /\ html' = <<generate_html(news_by_category, now)>>
            /\ pc' = "write"
    /\ UNCHANGED <<key_file, env_key, now, api_key, ci, queries, qi,
                   all_articles, seen_urls, merged, result, empty_url_seen,
                   net_calls, news_by_category, output_file, exit_status, input>>

\* lines 364-368
WriteAndReturn ==
    /\ pc = "write"
    /\ output_file' = html
    /\ exit_status' = {0}
    /\ pc' = "exited"
    /\ UNCHANGED <<key_file, env_key, now, api_key, ci, queries, qi,
                   all_articles, seen_urls, merged, result, empty_url_seen,
                   net_calls, news_by_category, html, input>>

\* an exception nothing catches: the interpreter prints the traceback and exits 1
Traceback ==
    /\ pc = "raised"
    /\ exit_status' = {1}
    /\ pc' = "exited"
    /\ UNCHANGED <<key_file, env_key, now, api_key, ci, queries, qi,
                   all_articles, seen_urls, merged, result, empty_url_seen,
                   net_calls, news_by_category, html, output_file, input>>

(***************************************************************************)
(* Spec: one run of main, for every key file and environment, every fetch  *)
(* returning any of Responses.                                             *)
(***************************************************************************)
KeyFiles == { Missing, Str(<<>>), Str(<<" ", "\n">>), Str(<<" ", "k", "\n">>) }
EnvKeys == { Missing, Str(<<>>), Str(<<"e">>) }
MainStamps == { Missing, Null, Str(<<"4", "9", "9">>) }
MainClock == 500

Init ==
    /\ key_file \in KeyFiles
    /\ env_key \in EnvKeys
    /\ now = MainClock
    /\ pc = "start"
    /\ api_key = Null
    /\ ci = 0
    /\ queries = <<>>
    /\ qi = 0
    /\ all_articles = <<>>
    /\ seen_urls = {}
    /\ merged = <<>>
    /\ result = <<>>
    /\ empty_url_seen = FALSE
    /\ net_calls = 0
    /\ news_by_category = <<>>
    /\ html = <<>>
    /\ output_file = <<>>
    /\ exit_status = {}
    /\ input = <<>>

Next ==
    \/ ResolveKey
    \/ StartCategory
    \/ FetchQuery
    \/ ProcessArticle(MainMaxUrl, MainStamps)
    \/ EndOfArticles
    \/ SortAndReturn
    \/ StoreCategory
    \/ Render
    \/ WriteAndReturn
    \/ Traceback

Spec == Init /\ [][Next]_vars

(***************************************************************************)
(* Specifications of the pure functions: Init draws the argument, the one  *)
(* action applies the function.                                            *)
(***************************************************************************)
\* everything main and fetch_category_news own, at rest
AtRest ==
    /\ key_file = Missing
    /\ env_key = Missing
    /\ api_key = Null
    /\ ci = 0
    /\ queries = <<>>
    /\ qi = 0
    /\ all_articles = <<>>
    /\ seen_urls = {}
    /\ merged = <<>>
    /\ empty_url_seen = FALSE
    /\ net_calls = 0
    /\ news_by_category = <<>>
    /\ html = <<>>
    /\ output_file = <<>>
    /\ exit_status = {}

RestUnchanged ==
    UNCHANGED <<key_file, env_key, now, api_key, ci, queries, qi, all_articles,
                seen_urls, merged, empty_url_seen, net_calls, news_by_category,
                html, output_file, exit_status, input>>

\* all texts over chars of length at most n
Texts(chars, n) == UNION { [1..k -> chars] : k \in 0..n }

Repeat(c, n) == [i \in 1..n |-> c]

\* ---- format_date ----
DigitChars == { "0", "1", "2", "3", "4", "5", "6", "7", "8", "9" }

DateInputs ==
    { Str(d) : d \in [1..IsoWidth -> DigitChars] }
        \cup { Null, Str(<<>>), Str(<<"1">>), Str(<<"a", "5", "0">>),
               Str(<<"5", "0", "a">>), Str(<<"0", "5", "0", "0", "0">>) }

DateClocks == { 500, 501 }

InitDate ==
    /\ AtRest
    /\ input \in DateInputs
    /\ now \in DateClocks
    /\ pc = "call"
    /\ result = <<>>

CallFormatDate ==
    /\ pc = "call"
    /\ result' = format_date(input, now)
    /\ pc' = "returned"
    /\ RestUnchanged

NextDate == CallFormatDate

SpecDate == InitDate /\ [][NextDate]_vars

\* ---- generate_story_html ----
TitleChars == { "A", " ", "-", "&" }

FooBarExampleNews ==
    << "F", "o", "o", " ", "B", "a", "r", " ", "-", " ",
       "E", "x", "a", "m", "p", "l", "e", " ", "N", "e", "w", "s" >>
FooBar == << "F", "o", "o", " ", "B", "a", "r" >>
ADashBDashC == << "A", " ", "-", " ", "B", " ", "-", " ", "C" >>
ADashB == << "A", " ", "-", " ", "B" >>

Titles ==
    { Missing, Null, Str(FooBarExampleNews), Str(ADashBDashC) }
        \cup { Str(s) : s \in Texts(TitleChars, MaxTitleLen) }

SpecialChars == { "&", "<", ">", "\"", "'" }

Descriptions ==
    { Missing, Null, Str(<<>>) }
        \cup { Str(Repeat("a", n) \o mid \o Repeat("b", m)) :
                 n \in (DescriptionKeep - DescSlack - 3)..(DescriptionLimit + DescSlack),
                 mid \in { <<>> } \cup { <<c>> : c \in SpecialChars },
                 m \in 0..(DescSlack + 1) }

StoryUrls == { Missing, Null, Str(<<>>), Str(<<"u", "&", "<", "\"", "'", ">">>) }

StorySources ==
    { Missing, Null, Str(<<"A">>), Obj(EmptyDict), Obj("name" :> Null),
      Obj("name" :> Str(<<"A", "&", "<">>)) }

StoryStamps == { Missing, Str(<<"4", "9", "9">>) }

StoryArticles ==
    { Entry("title", t) : t \in Titles }
        \cup { Entry("description", d) : d \in Descriptions }
        \cup { Entry("url", u) @@ Entry("source", src) @@ Entry("publishedAt", p) :
                 u \in StoryUrls, src \in StorySources, p \in StoryStamps }

InitStory ==
    /\ AtRest
    /\ input \in { [article |-> a, featured |-> f] : a \in StoryArticles, f \in BOOLEAN }
    /\ now = MainClock
    /\ pc = "call"
    /\ result = <<>>

CallGenerateStoryHtml ==
    /\ pc = "call"
    /\ IF StoryRaises(input.article)
       THEN /\ pc' = "raised"
            /\ UNCHANGED result
       ELSE /\ result' = generate_story_html(input.article, input.featured, now)
            /\ pc' = "returned"
    /\ RestUnchanged

NextStory == CallGenerateStoryHtml

SpecStory == InitStory /\ [][NextStory]_vars

\* ---- generate_html ----
HtmlArticles ==
    { Entry("url", Url(1)) @@ Entry("title", Str(ADashB)),
      Entry("url", Url(2)) @@ Entry("publishedAt", Str(<<"4", "9", "9">>)),
      Entry("url", Url(3)) @@ Entry("source", Null) }

ArticleLists == UNION { [1..k -> HtmlArticles] : k \in 0..MaxCards }

InitHtml ==
    /\ AtRest
    /\ input \in { [c \in 1..Len(CATEGORIES) |->
                       [category |-> CATEGORIES[c].name, articles |-> lists[c]]] :
                   lists \in [1..Len(CATEGORIES) -> ArticleLists] }
    /\ now = MainClock
    /\ pc = "call"
    /\ result = <<>>

CallGenerateHtml ==
    /\ pc = "call"
    /\ IF HtmlRaises(input)
       THEN /\ pc' = "raised"
            /\ UNCHANGED result
       ELSE /\ result' = generate_html(input, now)
            /\ pc' = "returned"
    /\ RestUnchanged

NextHtml == CallGenerateHtml

SpecHtml == InitHtml /\ [][NextHtml]_vars

(***************************************************************************)
(* Claims about fetch_category_news (SpecAgg).                             *)
(***************************************************************************)
UrlOf(x) == Get(x, "url", Str(<<>>))
Returned == pc = "returned"

\* C1: the result of fetch_category_news has at most 6 articles, is ordered by
\* publishedAt descending (a missing publishedAt counting as the empty string),
\* and holds no two articles with the same non-empty URL.
C1_TopSixSortedUnique ==
    Returned =>
        /\ Len(result) <= TopN
        /\ \A i, j \in 1..Len(result) :
             i < j => ~StrLess(PublishedAtKey(result[i]).s, PublishedAtKey(result[j]).s)
        /\ \A i, j \in 1..Len(result) :
             (i # j /\ Truthy(UrlOf(result[i]))) => UrlOf(result[i]) # UrlOf(result[j])

\* C1 witness: more than 6 articles were merged, and the 6 returned do not all
\* carry the same publishedAt
C1_Witness ==
    /\ Returned
    /\ Len(merged) > TopN
    /\ Len(result) = TopN
    /\ PublishedAtKey(result[1]) # PublishedAtKey(result[TopN])

\* C2 (as claimed): an article with an empty or absent URL is always appended,
\* so once a fetch has returned one, the accumulated list holds one.
C2_FalsyUrlAppended ==
    empty_url_seen => \E i \in 1..Len(all_articles) : ~Truthy(UrlOf(all_articles[i]))

\* C2 (amended): an article with an empty, null or absent URL is never appended:
\* neither the accumulated list, nor the list before the sort, nor the result
\* ever holds one.
C2_FalsyUrlDropped ==
    /\ \A i \in 1..Len(all_articles) : Truthy(UrlOf(all_articles[i]))
    /\ \A i \in 1..Len(merged) : Truthy(UrlOf(merged[i]))
    /\ \A i \in 1..Len(result) : Truthy(UrlOf(result[i]))

\* C2 witness: the fetches returned falsy-URL articles beside others, and the
\* call has returned a non-empty result
C2_Witness == Returned /\ empty_url_seen /\ Len(result) > 0

\* position of an article in the list before the sort (its URL is unique there)
AppendIndex(x) == CHOOSE k \in 1..Len(merged) : merged[k] = x

\* C5: two articles of the result with identical publishedAt stand in the order
\* in which they were appended.
C5_StableSort ==
    Returned =>
        \A i, j \in 1..Len(result) :
            (i < j /\ PublishedAtKey(result[i]) = PublishedAtKey(result[j]))
                => AppendIndex(result[i]) < AppendIndex(result[j])

\* C5 witness: the sort moved an article past two articles that tie
C5_Witness ==
    /\ Returned
    /\ \E i, j \in 1..Len(result) :
         /\ i < j
         /\ PublishedAtKey(result[i]) = PublishedAtKey(result[j])
         /\ \E k \in 1..Len(result) :
              /\ AppendIndex(result[k]) > AppendIndex(result[j])
              /\ k < i

(***************************************************************************)
(* Claims about main (Spec).                                               *)
(***************************************************************************)
QueryCount == Len(AllQueries)

\* C3 (as claimed): once the key is non-empty no error is fatal: whatever the
\* fetches return, the run makes every fetch, writes the output file and ends
\* with status 0.
C3_NoFatalError ==
    (pc = "exited" /\ Truthy(api_key)) =>
        /\ exit_status = {0}
        /\ output_file # <<>>
        /\ net_calls = QueryCount

\* C4: with an empty resolved credential (in particular: no key file and no
\* environment variable) main makes no network call, writes no output file and
\* ends with status 1.
C4_EmptyKeyStops ==
    LET stopped == /\ pc \in { "start", "exited" }
                   /\ net_calls = 0
                   /\ output_file = <<>>
                   /\ html = <<>>
                   /\ (pc = "exited" => exit_status = {1})
    IN  /\ (key_file = Missing /\ env_key = Missing) => stopped
        /\ (pc # "start" /\ ~Truthy(api_key)) => stopped

\* C4 witness: the run without key file and environment variable has ended
C4_Witness ==
    /\ key_file = Missing
    /\ env_key = Missing
    /\ pc = "exited"
    /\ exit_status = {1}

(***************************************************************************)
(* Claims about format_date (SpecDate).                                    *)
(***************************************************************************)
\* C6 (as claimed), the day counted in elapsed 24-hour periods: "Just now" under
\* 1 hour, "<N>h ago" within the day, "Yesterday" 1 day prior, "<N> days ago"
\* 2 to 6 days prior, otherwise the absolute form; the empty label for a text
\* that does not parse.
C6_RelativeLabels ==
    pc = "returned" =>
        IF ~Parses(input) THEN result = Label("", 0)
        ELSE LET age == (now - FromIsoFormat(input)) * TickSeconds
                 daysPrior == age \div SecondsPerDay
             IN  IF daysPrior = 0 /\ age < SecondsPerHour
                     THEN result = Label("Just now", 0)
                 ELSE IF daysPrior = 0
                     THEN result = Label("h ago", age \div SecondsPerHour)
                 ELSE IF daysPrior = 1
                     THEN result = Label("Yesterday", 0)
                 ELSE IF daysPrior >= 2 /\ daysPrior <= 6
                     THEN result = Label(" days ago", daysPrior)
                 ELSE result.label = "%b %d"

(***************************************************************************)
(* Claims about generate_story_html (SpecStory).                           *)
(***************************************************************************)
Description == Get(input.article, "description", Missing)

\* C7 (as claimed): the excerpt is empty for an absent or null description, the
\* whole escaped description up to 150 characters, the first 147 characters and
\* "..." beyond, whatever the characters.
C7_ExcerptByRawLength ==
    pc = "returned" =>
        result.excerpt =
            IF Description.t # "str" THEN <<>>
            ELSE IF Len(Description.s) <= DescriptionLimit THEN Escape(Description.s)
            ELSE Escape(SubSeq(Description.s, 1, DescriptionKeep)) \o Ellipsis

Title == Get(input.article, "title", Missing)

IsSeparatorAt(s, p) ==
    /\ p >= 1
    /\ p + 2 <= Len(s)
    /\ s[p] = " " /\ s[p + 1] = "-" /\ s[p + 2] = " "

\* C8: the rendered title is "Untitled" for an absent, null or empty title; the
\* escaped title when it holds no " - "; else the escaped text before the
\* rightmost " - " ("Foo Bar - Example News" gives "Foo Bar", "A - B - C"
\* gives "A - B").
C8_TitleSuffixStripped ==
    pc = "returned" =>
        /\ (Title.t # "str" \/ Title.s = <<>>) => result.title = Untitled
        /\ (Title.t = "str" /\ Title.s # <<>>) =>
             \/ /\ \A p \in 1..Len(Title.s) : ~IsSeparatorAt(Title.s, p)
                /\ result.title = Escape(Title.s)
             \/ \E p \in 1..Len(Title.s) :
                  /\ IsSeparatorAt(Title.s, p)
                  /\ \A q \in (p + 1)..Len(Title.s) : ~IsSeparatorAt(Title.s, q)
                  /\ result.title = Escape(SubSeq(Title.s, 1, p - 1))
        /\ Title = Str(FooBarExampleNews) => result.title = FooBar
        /\ Title = Str(ADashBDashC) => result.title = ADashB

\* C8 witness: a title with two separators and a character to escape before them
C8_Witness ==
    /\ pc = "returned"
    /\ Title.t = "str"
    /\ \E p, q \in 1..Len(Title.s) :
         /\ 1 < p
         /\ p < q
         /\ Title.s[1] = "&"
         /\ IsSeparatorAt(Title.s, p)
         /\ IsSeparatorAt(Title.s, q)
    /\ result.title # <<>>

Entities == { EscapeChar(c) : c \in SpecialChars }

\* no raw < > " ' and every & opens one of the five entities
WellEscaped(text) ==
    \A i \in 1..Len(text) :
        /\ text[i] \notin { "<", ">", "\"", "'" }
        /\ text[i] = "&" =>
             \E e \in Entities :
                 /\ i + Len(e) - 1 <= Len(text)
                 /\ SubSeq(text, i, i + Len(e) - 1) = e

\* C9 (as claimed): every article text in a card (title, URL, source name,
\* description, after stripping and truncation) is HTML-escaped.
C9_CardTextEscaped ==
    pc = "returned" =>
        /\ WellEscaped(result.title)
        /\ WellEscaped(result.href)
        /\ WellEscaped(result.source)
        /\ WellEscaped(result.excerpt)

(***************************************************************************)
(* Claims about generate_html (SpecHtml).                                  *)
(***************************************************************************)
NonEmpty(news) == SelectSeq(news, LAMBDA entry : entry.articles # <<>>)

\* C10: a section is emitted for a category iff its article list is non-empty,
\* and the sections of the other categories (order, cards, the featured mark on
\* the first card only) are those of the input without the empty categories.
C10_EmptyCategorySkipped ==
    pc = "returned" =>
        LET kept == NonEmpty(input)
        IN  /\ Len(result.sections) = Len(kept)
            /\ \A k \in 1..Len(kept) :
                 LET section == result.sections[k]
                 IN  /\ section.title = kept[k].category
                     /\ Len(section.stories) = Len(kept[k].articles)
                     /\ \A i \in 1..Len(section.stories) :
                          section.stories[i] =
                              generate_story_html(kept[k].articles[i], i = 1, now)
            /\ result = generate_html(kept, now)

\* C10 witness: the middle category is empty, the others are not, and one of
\* them has more than one card
C10_Witness ==
    /\ pc = "returned"
    /\ input[1].articles # <<>>
    /\ input[2].articles = <<>>
    /\ Len(input[3].articles) > 1
    /\ Len(result.sections) = 2

====
